---- MODULE Spec2Model ----
(***************************************************************************)
(* Model of the spatial relationship classifier of kavindie/alfred:        *)
(*   build_scene_description          (scripts/scene_info_extract.py)      *)
(*   extract_contextual_relationships (scripts/scene_info_extract_claude.py)*)
(*                                                                         *)
(* Coordinates are in tenths of a simulator unit, so the thresholds 1.5,   *)
(* 1.0, 0.3, 0.5, 2.5 and the offsets 0.1, 0.5, 1.0 are the integers 15,   *)
(* 10, 3, 5, 25 and 1, 5, 10.  A horizontal distance sqrt(dx^2 + dz^2) is  *)
(* kept as its square; a score sqrt(sq) + off is the pair (sq, off) and    *)
(* two scores are compared exactly (real arithmetic, no rounding).         *)
(***************************************************************************)
EXTENDS Integers, Sequences, FiniteSets, TLC

VARIABLES
    prog,              \* which script runs: "bsd" or "ecr"
    objects,           \* event.metadata["objects"]
    object_poses,      \* scene["object_poses"]
    pc,                \* position in the function body
    pass,              \* "first" or "second" call on the same snapshot
    prev_records,      \* what the first call returned
    RECEPTACLE_TYPES,  \* ecr: set of objectType of flagged metadata objects
    used_objects,      \* ecr: names of metadata objects already matched
    p,                 \* ecr: index of the pose the partition loop is at
    receptacles,       \* receptacles_meta (bsd) / receptacles (ecr)
    items,             \* items_poses (bsd) / items (ecr)
    it,                \* index of the item of the outer loop
    item_pos,          \* item_pos of the current item
    rc,                \* index of the receptacle of the inner loop
    relationship,      \* rel / relationship of the last scored pair
    priority,          \* score / priority of the last scored pair
    best_relationship, \* best_rel (label part) / best_relationship
    best_receptacle,   \* best_rel (receptacle part) / best_receptacle
    min_distance,      \* best_score / min_distance
    records,           \* relationship_lines / scene_info['spatial_relationships']
    gpc,               \* generate_scene_info: position in the function body
    object_toggles,    \* generate_scene_info: scene["object_toggles"]
    controller,        \* generate_scene_info: "None", "running" or "stopped"
    stops,             \* generate_scene_info: calls of controller.stop() so far
    exc,               \* generate_scene_info: the exception in flight, or None
    ticks,             \* safe_initialize: polls of the request queue that timed out
    gk                 \* generate_scene_info: index in the pose or toggle loop

\* the state of generate_scene_info
gvars == <<gpc, object_toggles, controller, stops, exc, ticks, gk>>

vars == <<prog, objects, object_poses, pc, pass, prev_records, RECEPTACLE_TYPES,
          used_objects, p, receptacles, items, it, item_pos, rc, relationship,
          priority, best_relationship, best_receptacle, min_distance, records,
          gvars>>

(***************************************************************************)
(* Bounds of the model                                                     *)
(***************************************************************************)
MaxRecs == 2
MaxItems == 1
MaxObjs == 2
MaxPoses == 2

(***************************************************************************)
(* Thresholds and score offsets, in tenths                                 *)
(***************************************************************************)
OnVertical == 15
OnHorizontal == 10
InVertical == 3
InHorizontal == 5
InOffset == 1
NextToVertical == 5
NextToHorizontal == 15
NextToOffset == 5
NearHorizontal == 25
NearOffset == 10

None == "None"
NoType == "NoType"      \* a metadata object without an 'objectType' key
NoPosition == <<>>      \* an object or pose without a 'position' key

Abs(n) == IF n < 0 THEN -n ELSE n

Min(S) == CHOOSE x \in S : \A y \in S : x <= y

(***************************************************************************)
(* Distances                                                               *)
(***************************************************************************)
\* horizontal_dist squared: (x1-x2)^2 + (z1-z2)^2
HorizontalSq(p1, p2) ==
    (p1[1] - p2[1]) * (p1[1] - p2[1]) + (p1[3] - p2[3]) * (p1[3] - p2[3])

\* abs(item_pos["y"] - rec_pos["y"])
VerticalDist(p1, p2) == Abs(p1[2] - p2[2])

\* sqrt(hsq) < t
HLess(hsq, t) == hsq < t * t

(***************************************************************************)
(* Scores: float("inf") or sqrt(sq) + off                                  *)
(***************************************************************************)
Inf == [inf |-> TRUE, sq |-> 0, off |-> 0]

Fin(sq, off) == [inf |-> FALSE, sq |-> sq, off |-> off]

\* sqrt(a) + x < sqrt(b) + y, decided in integers
SqrtLess(a, x, b, y) ==
    LET c == y - x
        d == a + c * c - b
        e == b + c * c - a
    IN  IF c = 0 THEN a < b
        ELSE IF c > 0 THEN a < c * c \/ d < 0 \/ d * d < 4 * c * c * a
        ELSE b > c * c /\ e > 0 /\ e * e > 4 * c * c * b

\* s < t on scores
ScoreLess(s, t) ==
    IF s.inf THEN FALSE
    ELSE IF t.inf THEN TRUE
    ELSE SqrtLess(s.sq, s.off, t.sq, t.off)

\* s <= t on scores
ScoreLeq(s, t) == ~ScoreLess(t, s)

(***************************************************************************)
(* Relationship scorer: the if/elif chain of one (item, receptacle) pair   *)
(***************************************************************************)
OnGuard(ip, rp) ==
    /\ ip[2] > rp[2]
    /\ VerticalDist(ip, rp) < OnVertical
    /\ HLess(HorizontalSq(ip, rp), OnHorizontal)

InGuard(ip, rp) ==
    /\ VerticalDist(ip, rp) < InVertical
    /\ HLess(HorizontalSq(ip, rp), InHorizontal)

\* the next-to guard with the horizontal threshold of the on guard
NextToGuardTight(ip, rp) ==
    /\ VerticalDist(ip, rp) < NextToVertical
    /\ HLess(HorizontalSq(ip, rp), OnHorizontal)

NextToGuard(ip, rp) ==
    /\ VerticalDist(ip, rp) < NextToVertical
    /\ HLess(HorizontalSq(ip, rp), NextToHorizontal)

NearGuard(ip, rp) == HLess(HorizontalSq(ip, rp), NearHorizontal)

\* the chain read bottom-up: the last guard that holds wins
RelationshipLastMatch(ip, rp) ==
    IF NearGuard(ip, rp) THEN "near"
    ELSE IF NextToGuard(ip, rp) THEN "next to"
    ELSE IF InGuard(ip, rp) THEN "in"
    ELSE IF OnGuard(ip, rp) THEN "on"
    ELSE None

\* the label the chain assigns, None when no branch is taken
Relationship(ip, rp) ==
    IF OnGuard(ip, rp) THEN "on"
    ELSE IF InGuard(ip, rp) THEN "in"
    ELSE IF NextToGuard(ip, rp) THEN "next to"
    ELSE IF NearGuard(ip, rp) THEN "near"
    ELSE None

\* the scores with "near" scored by the bare distance
PriorityNearBare(program, label, hsq) ==
    IF label = "on" THEN Fin(hsq, 0)
    ELSE IF label = "in" THEN Fin(hsq, IF program = "bsd" THEN InOffset ELSE 0)
    ELSE IF label = "next to" THEN Fin(hsq, NextToOffset)
    ELSE IF label = "near" THEN Fin(hsq, 0)
    ELSE Inf

\* the score assigned in the branch taken; bsd adds 0.1 for "in", ecr does not
Priority(program, label, hsq) ==
    IF label = "on" THEN Fin(hsq, 0)
    ELSE IF label = "in" THEN Fin(hsq, IF program = "bsd" THEN InOffset ELSE 0)
    ELSE IF label = "next to" THEN Fin(hsq, NextToOffset)
    ELSE IF label = "near" THEN Fin(hsq, NearOffset)
    ELSE Inf

\* `if rel and score < best_score`, acting on a score that replaces the best
BetterLeq(label, s, best) == label # None /\ ScoreLeq(s, best)

BetterGreater(label, s, best) == label # None /\ (best.inf \/ ScoreLess(best, s))

Better(label, s, best) == label # None /\ ScoreLess(s, best)

(***************************************************************************)
(* Object names: "Prefix_suffix" is the pair <<Prefix, suffix>>            *)
(***************************************************************************)
\* pose_name.split('_')[0]
PosePrefix(name) == name[1]

\* obj['name'].startswith(pose_prefix + '_')
StartsWithPrefix(name, prefix) == name[1] = prefix

\* match_object_name without the `not in used_objects` tests
MatchIndexIgnoringUsed(pose_name, objs, used) ==
    LET exact == {j \in DOMAIN objs : objs[j].name = pose_name}
        byType == {j \in DOMAIN objs : objs[j].objectType = PosePrefix(pose_name)}
        byPrefix == {j \in DOMAIN objs :
                        StartsWithPrefix(objs[j].name, PosePrefix(pose_name))}
    IN  IF exact # {} THEN Min(exact)
        ELSE IF byType # {} THEN Min(byType)
        ELSE IF byPrefix # {} THEN Min(byPrefix)
        ELSE 0

\* match_object_name: index of the metadata object returned, 0 for None
MatchIndex(pose_name, objs, used) ==
    LET exact == {j \in DOMAIN objs :
                    objs[j].name = pose_name /\ objs[j].name \notin used}
        byType == {j \in DOMAIN objs :
                    objs[j].objectType = PosePrefix(pose_name)
                    /\ objs[j].name \notin used}
        byPrefix == {j \in DOMAIN objs :
                    StartsWithPrefix(objs[j].name, PosePrefix(pose_name))
                    /\ objs[j].name \notin used}
    IN  IF exact # {} THEN Min(exact)
        ELSE IF byType # {} THEN Min(byType)
        ELSE IF byPrefix # {} THEN Min(byPrefix)
        ELSE 0

\* obj_by_name.get(item_name): the last object of that name, <<>> for None
ObjByName(name) ==
    LET hits == {j \in DOMAIN objects : objects[j].name = name}
    IN  IF hits = {} THEN <<>>
        ELSE <<objects[CHOOSE j \in hits : \A k \in hits : k <= j]>>

\* [obj for obj in objects if obj.get("receptacle", False)]
IsFlagged(obj) == obj.receptacle

ReceptaclesMeta == SelectSeq(objects, IsFlagged)

\* set([obj['objectType'] for obj in objects if obj['receptacle']])
ReceptacleTypes == {objects[j].objectType : j \in {k \in DOMAIN objects : objects[k].receptacle}}

\* categorising by the matched object's own flag instead of its type
IsReceptacleByFlag(obj_meta, types) == obj_meta.receptacle

\* `if obj_type in RECEPTACLE_TYPES`
IsReceptacle(obj_meta, types) == obj_meta.objectType \in types

(***************************************************************************)
(* Snapshots the model runs on                                             *)
(***************************************************************************)
MkObj(name, type, flag, pos) ==
    [name |-> name, objectType |-> type, receptacle |-> flag, position |-> pos]

MkPose(name, pos) == [objectName |-> name, position |-> pos]

\* the pose list that SetObjectPoses applied: every object, where it now is
PosesOf(objs) == [j \in DOMAIN objs |-> MkPose(objs[j].name, objs[j].position)]

Origin == <<0, 0, 0>>

ItemPos == {Origin, <<0, 2, 0>>}

RecPos == {Origin, <<2, 0, 0>>, <<1, 0, 1>>, <<3, 0, 4>>, <<4, 2, 0>>,
           <<4, 4, 0>>, <<9, 0, 0>>, <<10, 0, 0>>, <<20, 0, 0>>, <<30, 0, 0>>,
           <<0, 20, 0>>}

RecTypeNames == <<"Mug", "Bowl", "Pot", "Pan">>

RecTypeOf(k) == RecTypeNames[((k - 1) % Len(RecTypeNames)) + 1]

\* n pickupable receptacles followed by m apples, every name matching exactly
GeomObjects(n, m, rp, ip) ==
    [j \in 1..(n + m) |->
        IF j <= n THEN MkObj(<<RecTypeOf(j), j>>, RecTypeOf(j), TRUE, rp[j])
        ELSE MkObj(<<"Apple", j>>, "Apple", FALSE, ip[j - n])]

GeomSnapshots ==
    UNION {UNION {{[objects |-> GeomObjects(n, m, rp, ip),
                    poses |-> PosesOf(GeomObjects(n, m, rp, ip))] :
                        rp \in [1..n -> RecPos], ip \in [1..m -> ItemPos]} :
                  m \in 1..MaxItems} :
           n \in 0..MaxRecs}

Types == {"Mug", "Apple"}

\* <<name prefix, objectType>>: the name follows the type, or it does not
Kinds == {<<"Mug", "Mug">>, <<"Apple", "Apple">>, <<"Apple", "Mug">>}

\* metadata objects at one place whose name prefix, type and flag vary
PartObjects ==
    UNION {{[j \in 1..n |-> MkObj(<<f[j][1][1], j>>, f[j][1][2], f[j][2], Origin)] :
                f \in [1..n -> Kinds \X BOOLEAN]} :
           n \in 1..MaxObjs}

\* poses whose names need not be names of the metadata
PartPoses ==
    UNION {{[j \in 1..n |-> MkPose(g[j], Origin)] :
                g \in [1..n -> Types \X (1..2)]} :
           n \in 1..MaxPoses}

PartSnapshots == {[objects |-> o, poses |-> q] : o \in PartObjects, q \in PartPoses}

\* one or two receptacles and an apple, any of which may lack position or type
DefectObjects ==
    UNION {{[j \in 1..(n + 1) |->
                IF j <= n
                THEN MkObj(<<RecTypeOf(j), j>>, f[j][1], TRUE, f[j][2])
                ELSE MkObj(<<"Apple", j>>, "Apple", FALSE, f[j][2])] :
                f \in [1..(n + 1) -> {"Mug", NoType} \X {Origin, <<0, 2, 0>>, NoPosition}]} :
           n \in 1..2}

DefectSnapshots == {[objects |-> o, poses |-> PosesOf(o)] : o \in DefectObjects}

(***************************************************************************)
(* What the two scripts read of a receptacle and of an item                *)
(***************************************************************************)
\* rec["position"] (bsd), recep['position'] of the pose (ecr)
RecepPosition(e) == IF prog = "bsd" THEN e.position ELSE e.info.position

\* rec["objectType"] (bsd), recep_meta['objectType'] (ecr)
RecepType(e) == IF prog = "bsd" THEN e.objectType ELSE e.meta.objectType

\* the metadata name of a receptacle entry
RecepName(e) == IF prog = "bsd" THEN e.name ELSE e.meta.name

\* meta_obj["position"], else pose["position"] (bsd); item['position'] (ecr)
ItemPosition(e) ==
    IF prog = "bsd"
    THEN LET meta_obj == ObjByName(e.objectName)
         IN  IF meta_obj # <<>> THEN meta_obj[1].position ELSE e.position
    ELSE e.info.position

\* item_name.split("_")[0] (bsd), item_meta['objectType'] (ecr)
ItemType(e) == IF prog = "bsd" THEN PosePrefix(e.objectName) ELSE e.meta.objectType

\* pose["objectName"] (bsd), item_meta['name'] (ecr)
ItemName(e) == IF prog = "bsd" THEN e.objectName ELSE e.meta.name

\* used_objects carried over from the previous call
StaleUsedObjects == used_objects

\* used_objects = set()
FreshUsedObjects == {}

\* the fallback dropped: None is reported as it is
RelationshipAsIs(best) == best

\* best_rel or 'lying in the room' / best_relationship if ... else "in room"
RelationshipOrDefault(best) == IF best # None THEN best ELSE "in room"

\* a record is appended only for an item that found a receptacle
AppendIfPlaced(recs, r) == IF r.receptacle = None THEN recs ELSE Append(recs, r)

\* relationship_lines.append(...) / spatial_relationships.append(rel_desc)
AppendRecord(recs, r) == Append(recs, r)

TypeMissing == \E j \in DOMAIN objects : objects[j].objectType = NoType

(***************************************************************************)
(* State after the simulator has produced the snapshot                     *)
(***************************************************************************)
Locals ==
    /\ RECEPTACLE_TYPES = {}
    /\ used_objects = {}
    /\ p = 1
    /\ receptacles = <<>>
    /\ items = <<>>
    /\ it = 1
    /\ item_pos = NoPosition
    /\ rc = 1
    /\ relationship = None
    /\ priority = Inf
    /\ best_relationship = None
    /\ best_receptacle = None
    /\ min_distance = Inf
    /\ records = <<>>

\* generate_scene_info is not running
GenIdle ==
    /\ gpc = "idle"
    /\ object_toggles = <<>>
    /\ controller = None
    /\ stops = 0
    /\ exc = None
    /\ ticks = 0
    /\ gk = 1

InitOn(snapshots) ==
    /\ GenIdle
    /\ prog \in {"bsd", "ecr"}
    /\ \E s \in snapshots : objects = s.objects /\ object_poses = s.poses
    /\ pc = "start"
    /\ pass = "first"
    /\ prev_records = <<>>
    /\ Locals

Init == InitOn(GeomSnapshots \cup PartSnapshots)

InitDefect == InitOn(DefectSnapshots)

Raise ==
    /\ pc' = "raised"
    /\ UNCHANGED <<RECEPTACLE_TYPES, used_objects, p, receptacles, items, it,
                   item_pos, rc, relationship, priority, best_relationship,
                   best_receptacle, min_distance, records>>

(***************************************************************************)
(* The function body, one action per step                                  *)
(***************************************************************************)
\* bsd: sections 5 and 6; ecr: RECEPTACLE_TYPES, the debug listing of every
\* obj['objectType'], and the empty lists before the partition loop
Setup ==
    /\ pc = "start"
    /\ IF prog = "bsd"
       THEN /\ receptacles' = ReceptaclesMeta
            /\ items' = object_poses
            /\ it' = 1
            /\ pc' = "item"
            /\ UNCHANGED <<RECEPTACLE_TYPES, used_objects, p, item_pos, rc,
                           relationship, priority, best_relationship,
                           best_receptacle, min_distance, records>>
       ELSE IF TypeMissing
       THEN Raise
       ELSE /\ RECEPTACLE_TYPES' = ReceptacleTypes
            /\ used_objects' = FreshUsedObjects
            /\ receptacles' = <<>>
            /\ items' = <<>>
            /\ p' = 1
            /\ pc' = "partition"
            /\ UNCHANGED <<it, item_pos, rc, relationship, priority,
                           best_relationship, best_receptacle, min_distance,
                           records>>
    /\ UNCHANGED gvars
    /\ UNCHANGED <<prog, objects, object_poses, pass, prev_records>>

\* ecr: one iteration of `for obj_info in object_poses`
PartitionStep ==
    /\ pc = "partition"
    /\ p <= Len(object_poses)
    /\ LET obj_info == object_poses[p]
           j == MatchIndex(obj_info.objectName, objects, used_objects)
       IN  IF j = 0
           THEN UNCHANGED <<used_objects, receptacles, items>>
           ELSE LET entry == [info |-> obj_info, meta |-> objects[j]]
                IN  /\ used_objects' = used_objects \cup {objects[j].name}
                    /\ IF IsReceptacle(objects[j], RECEPTACLE_TYPES)
                       THEN /\ receptacles' = Append(receptacles, entry)
                            /\ UNCHANGED items
                       ELSE /\ items' = Append(items, entry)
                            /\ UNCHANGED receptacles
    /\ p' = p + 1
    /\ UNCHANGED gvars
    /\ UNCHANGED <<prog, objects, object_poses, pc, pass, prev_records,
                   RECEPTACLE_TYPES, it, item_pos, rc, relationship, priority,
                   best_relationship, best_receptacle, min_distance, records>>

\* ecr: the partition loop ends
PartitionDone ==
    /\ pc = "partition"
    /\ p > Len(object_poses)
    /\ pc' = "item"
    /\ it' = 1
    /\ UNCHANGED gvars
    /\ UNCHANGED <<prog, objects, object_poses, pass, prev_records,
                   RECEPTACLE_TYPES, used_objects, p, receptacles, items,
                   item_pos, rc, relationship, priority, best_relationship,
                   best_receptacle, min_distance, records>>

\* the head of one iteration of the item loop: item_pos and the reset of best
StartItem ==
    /\ pc = "item"
    /\ it <= Len(items)
    /\ IF ItemPosition(items[it]) = NoPosition
       THEN Raise
       ELSE /\ item_pos' = ItemPosition(items[it])
            /\ best_relationship' = None
            /\ best_receptacle' = None
            /\ min_distance' = Inf
            /\ rc' = 1
            /\ pc' = "scan"
            /\ UNCHANGED <<RECEPTACLE_TYPES, used_objects, p, receptacles,
                           items, it, relationship, priority, records>>
    /\ UNCHANGED gvars
    /\ UNCHANGED <<prog, objects, object_poses, pass, prev_records>>

\* one iteration of the receptacle loop: score the pair, keep it if better
ScoreStep ==
    /\ pc = "scan"
    /\ rc <= Len(receptacles)
    /\ LET rec == receptacles[rc]
       IN  IF RecepPosition(rec) = NoPosition \/ RecepType(rec) = NoType
           THEN Raise
           ELSE LET rel == Relationship(item_pos, RecepPosition(rec))
                    score == Priority(prog, rel,
                                      HorizontalSq(item_pos, RecepPosition(rec)))
                IN  /\ relationship' = rel
                    /\ priority' = score
                    /\ IF Better(rel, score, min_distance)
                       THEN /\ min_distance' = score
                            /\ best_relationship' = rel
                            /\ best_receptacle' = RecepType(rec)
                       ELSE UNCHANGED <<min_distance, best_relationship,
                                        best_receptacle>>
                    /\ rc' = rc + 1
                    /\ UNCHANGED <<pc, RECEPTACLE_TYPES, used_objects, p,
                                   receptacles, items, it, item_pos, records>>
    /\ UNCHANGED gvars
    /\ UNCHANGED <<prog, objects, object_poses, pass, prev_records>>

\* the record the item gets
RelDesc ==
    [item |-> ItemType(items[it]),
     item_name |-> ItemName(items[it]),
     relationship |-> RelationshipOrDefault(best_relationship),
     receptacle |-> best_receptacle]

\* the receptacle loop ends: the item's record is appended
EmitRecord ==
    /\ pc = "scan"
    /\ rc > Len(receptacles)
    /\ records' = AppendRecord(records, RelDesc)
    /\ it' = it + 1
    /\ pc' = "item"
    /\ UNCHANGED gvars
    /\ UNCHANGED <<prog, objects, object_poses, pass, prev_records,
                   RECEPTACLE_TYPES, used_objects, p, receptacles, items,
                   item_pos, rc, relationship, priority, best_relationship,
                   best_receptacle, min_distance>>

\* the item loop ends: controller.stop() and return
Finish ==
    /\ pc = "item"
    /\ it > Len(items)
    /\ pc' = "done"
    /\ UNCHANGED gvars
    /\ UNCHANGED <<prog, objects, object_poses, pass, prev_records,
                   RECEPTACLE_TYPES, used_objects, p, receptacles, items, it,
                   item_pos, rc, relationship, priority, best_relationship,
                   best_receptacle, min_distance, records>>

\* the function is called a second time on the same snapshot
Rerun ==
    /\ pc = "done"
    /\ pass = "first"
    /\ pass' = "second"
    /\ prev_records' = records
    /\ pc' = "start"
    /\ RECEPTACLE_TYPES' = {}
    /\ p' = 1
    /\ receptacles' = <<>>
    /\ items' = <<>>
    /\ it' = 1
    /\ item_pos' = NoPosition
    /\ rc' = 1
    /\ relationship' = None
    /\ priority' = Inf
    /\ best_relationship' = None
    /\ best_receptacle' = None
    /\ min_distance' = Inf
    /\ records' = <<>>
    /\ UNCHANGED gvars
    /\ UNCHANGED <<prog, objects, object_poses, used_objects>>

Next ==
    \/ Setup
    \/ PartitionStep
    \/ PartitionDone
    \/ StartItem
    \/ ScoreStep
    \/ EmitRecord
    \/ Finish
    \/ Rerun

Spec == Init /\ [][Next]_vars

SpecDefect == InitDefect /\ [][Next]_vars

(***************************************************************************)
(* Vocabulary of the properties                                            *)
(***************************************************************************)
\* a pair has just been scored: relationship and priority are its verdict
Scored == pc = "scan" /\ rc > 1

ScoredRecPos == RecepPosition(receptacles[rc - 1])

ScoredHSq == HorizontalSq(item_pos, ScoredRecPos)

ScoredV == VerticalDist(item_pos, ScoredRecPos)

\* the receptacle loop of the current item has seen every receptacle
ScanComplete == pc = "scan" /\ rc > Len(receptacles)

CandLabel(k) == Relationship(item_pos, RecepPosition(receptacles[k]))

CandScore(k) ==
    Priority(prog, CandLabel(k), HorizontalSq(item_pos, RecepPosition(receptacles[k])))

\* the receptacles that produced a candidate for the current item
Candidates == {k \in DOMAIN receptacles : CandLabel(k) # None}

\* the candidates no other candidate beats
Minimal == {k \in Candidates : \A j \in Candidates : ScoreLeq(CandScore(k), CandScore(j))}

Partitioned == pc \in {"item", "scan", "done"}

RecepNames == {RecepName(receptacles[k]) : k \in DOMAIN receptacles}

ItemNames == {ItemName(items[k]) : k \in DOMAIN items}

(***************************************************************************)
(* C1: every scored pair carries at most one label, the one of the first   *)
(* guard that holds in the order on (item above, vertical < 1.5,           *)
(* horizontal < 1.0), in (vertical < 0.3, horizontal < 0.5), next to       *)
(* (vertical < 0.5, horizontal < 1.5), near (horizontal < 2.5), and no     *)
(* label when none holds; a pair meeting both the on and the near guard is *)
(* labelled on.                                                            *)
(***************************************************************************)
C1_FirstGuardWins ==
    Scored =>
        LET on == item_pos[2] > ScoredRecPos[2] /\ ScoredV < 15 /\ ScoredHSq < 100
            in == ScoredV < 3 /\ ScoredHSq < 25
            nx == ScoredV < 5 /\ ScoredHSq < 225
            nr == ScoredHSq < 625
        IN  /\ (relationship = "on") <=> on
            /\ (relationship = "in") <=> (~on /\ in)
            /\ (relationship = "next to") <=> (~on /\ ~in /\ nx)
            /\ (relationship = "near") <=> (~on /\ ~in /\ ~nx /\ nr)
            /\ (relationship = None) <=> (~on /\ ~in /\ ~nx /\ ~nr)
            /\ (on /\ nr) => relationship = "on"

\* a pair at horizontal distance 0.5 with the item 0.2 above: the on, next to
\* and near guards all hold and the label is on
C1_Witness ==
    /\ Scored
    /\ relationship = "on"
    /\ ScoredHSq = 25
    /\ ScoredV = 2

(***************************************************************************)
(* C2: a labelled pair's score is the horizontal distance for on, plus 0.1 *)
(* for in, plus 0.5 for next to, plus 1.0 for near.                        *)
(***************************************************************************)
C2_ScoreOffsets ==
    (Scored /\ relationship # None) =>
        /\ ~priority.inf
        /\ priority.sq = ScoredHSq
        /\ priority.off = (IF relationship = "on" THEN 0
                           ELSE IF relationship = "in" THEN 1
                           ELSE IF relationship = "next to" THEN 5
                           ELSE 10)

(***************************************************************************)
(* C3: once the whole receptacle sequence is scanned, the selector holds a *)
(* candidate whose score is at most every candidate's score, and it holds  *)
(* none (no receptacle recorded, the fallback label) exactly when no       *)
(* receptacle produced a candidate.                                        *)
(***************************************************************************)
C3_MinimumOrUnplaced ==
    ScanComplete =>
        /\ (best_receptacle = None) <=> (Candidates = {})
        /\ (best_relationship = None) <=> (Candidates = {})
        /\ (RelDesc.relationship = "in room") <=> (Candidates = {})
        /\ Candidates # {} =>
            /\ \E k \in Candidates :
                /\ min_distance = CandScore(k)
                /\ best_relationship = CandLabel(k)
                /\ best_receptacle = RecepType(receptacles[k])
            /\ \A k \in Candidates : ScoreLeq(min_distance, CandScore(k))

\* two candidates of different scores, the later one the better, and one
\* receptacle that produced none
C3_Witness ==
    /\ ScanComplete
    /\ \E j, k \in Candidates :
        j < k /\ ScoreLess(CandScore(k), CandScore(j)) /\ min_distance = CandScore(k)

C3_WitnessUnplaced ==
    /\ ScanComplete
    /\ receptacles # <<>>
    /\ Candidates = {}
    /\ best_receptacle = None

(***************************************************************************)
(* C4: when several receptacles produce the same minimal score, the        *)
(* selector keeps the one that comes first in the receptacle sequence.     *)
(***************************************************************************)
C4_FirstOfTiesWins ==
    (ScanComplete /\ Candidates # {}) =>
        /\ best_receptacle = RecepType(receptacles[Min(Minimal)])
        /\ best_relationship = CandLabel(Min(Minimal))

\* two receptacles of different types tie on the minimal score
C4_Witness ==
    /\ ScanComplete
    /\ \E j, k \in Minimal :
        /\ j < k
        /\ RecepType(receptacles[j]) # RecepType(receptacles[k])
        /\ best_receptacle = RecepType(receptacles[j])

(***************************************************************************)
(* C5: a pass produces exactly one record per movable item, in the items'  *)
(* order: while the item loop runs there is one record for each item       *)
(* already handled, and when the pass returns the records are as many as   *)
(* the movable items (for bsd, the pose list itself).                      *)
(***************************************************************************)
C5_OneRecordPerItem ==
    Partitioned =>
        /\ Len(records) = it - 1
        /\ Len(records) <= Len(items)
        /\ \A k \in 1..Len(records) :
            /\ records[k].item_name = ItemName(items[k])
            /\ records[k].item = ItemType(items[k])
        /\ pc = "done" => Len(records) = Len(items)
        /\ prog = "bsd" => items = object_poses

\* a finished pass over two items or more, one of them left unplaced
C5_Witness ==
    /\ pc = "done"
    /\ Len(records) >= 2
    /\ \E k \in DOMAIN records : records[k].receptacle = None
    /\ \E k \in DOMAIN records : records[k].receptacle # None

(***************************************************************************)
(* C6: after partitioning no object is both in the receptacle sequence and *)
(* in the item sequence, so no item is scored against a receptacle that is *)
(* the same object.                                                        *)
(***************************************************************************)
C6_Disjoint ==
    /\ Partitioned => RecepNames \cap ItemNames = {}
    /\ Scored => ItemName(items[it]) # RecepName(receptacles[rc - 1])

(***************************************************************************)
(* C7: an object is in the receptacle sequence if and only if its own      *)
(* isReceptacle flag is true; every other processed object is an item.     *)
(***************************************************************************)
C7_ByOwnFlag ==
    Partitioned =>
        IF prog = "bsd"
        THEN /\ receptacles = ReceptaclesMeta
             /\ items = object_poses
        ELSE /\ \A k \in DOMAIN receptacles : receptacles[k].meta.receptacle
             /\ \A k \in DOMAIN items : ~items[k].meta.receptacle

(***************************************************************************)
(* C7, amended: bsd's receptacle sequence holds exactly the metadata       *)
(* objects whose own flag is true; ecr puts a matched object into the      *)
(* receptacle sequence if and only if its objectType is the objectType of  *)
(* some metadata object whose flag is true, and into the item sequence     *)
(* otherwise.                                                              *)
(***************************************************************************)
C7_ByTypeOfFlagged ==
    Partitioned =>
        IF prog = "bsd"
        THEN /\ \A j \in DOMAIN objects :
                    objects[j].receptacle <=>
                        (\E k \in DOMAIN receptacles : receptacles[k] = objects[j])
             /\ \A k \in DOMAIN receptacles : receptacles[k].receptacle
             /\ items = object_poses
        ELSE LET flaggedType(t) ==
                     \E j \in DOMAIN objects :
                         objects[j].receptacle /\ objects[j].objectType = t
             IN  /\ \A k \in DOMAIN receptacles :
                        flaggedType(receptacles[k].meta.objectType)
                 /\ \A k \in DOMAIN items : ~flaggedType(items[k].meta.objectType)
                 /\ used_objects = RecepNames \cup ItemNames
                 /\ Len(receptacles) + Len(items) = Cardinality(used_objects)

\* ecr holds a receptacle whose own flag is false and whose type is flagged
C7_Witness ==
    /\ Partitioned
    /\ prog = "ecr"
    /\ \E k \in DOMAIN receptacles : ~receptacles[k].meta.receptacle

(***************************************************************************)
(* C8: a defective object (no position, or a receptacle without a type)    *)
(* never aborts the pass.                                                  *)
(***************************************************************************)
C8_NeverAborts == pc # "raised"

(***************************************************************************)
(* C9: with zero receptacles the pass does not fail and every item gets    *)
(* the fallback label with no receptacle recorded.                         *)
(***************************************************************************)
C9_EmptyReceptacles ==
    (Partitioned /\ receptacles = <<>>) =>
        /\ pc # "raised"
        /\ pc = "done" \/ ENABLED Next
        /\ \A k \in DOMAIN records :
            /\ records[k].relationship = "in room"
            /\ records[k].receptacle = None
        /\ pc = "done" => Len(records) = Len(items)

\* a finished pass without receptacles that had items to report
C9_Witness ==
    /\ pc = "done"
    /\ receptacles = <<>>
    /\ items # <<>>
    /\ Len(records) = Len(items)

(***************************************************************************)
(* C10: a second pass over the same snapshot returns the record sequence   *)
(* the first pass returned: same labels, same receptacles, same order.     *)
(***************************************************************************)
C10_Deterministic ==
    (pass = "second" /\ pc = "done") => records = prev_records

\* a second pass finished with a placed and an unplaced item
C10_Witness ==
    /\ pass = "second"
    /\ pc = "done"
    /\ \E k \in DOMAIN records : records[k].receptacle = None
    /\ \E k \in DOMAIN records : records[k].receptacle # None

(***************************************************************************)
(* The scenario of C11: the item at the origin, two receptacles, CounterA  *)
(* at (1,0,0) and CounterB at (0.4,0.4,0), in either order                 *)
(***************************************************************************)
CounterAPos == <<10, 0, 0>>

CounterBPos == <<4, 4, 0>>

CounterScenario ==
    /\ pc = "scan"
    /\ item_pos = Origin
    /\ Len(receptacles) = 2
    /\ {RecepPosition(receptacles[k]) : k \in DOMAIN receptacles} = {CounterAPos, CounterBPos}

CounterB == CHOOSE k \in DOMAIN receptacles : RecepPosition(receptacles[k]) = CounterBPos

(***************************************************************************)
(* C11: in the scenario CounterA is labelled near with score 2.0, CounterB *)
(* next to with score 0.9, and the selector picks CounterB.                *)
(***************************************************************************)
C11_NearAndNextTo ==
    CounterScenario =>
        /\ (Scored /\ ScoredRecPos = CounterAPos) =>
            (relationship = "near" /\ priority = Fin(100, 10))
        /\ (Scored /\ ScoredRecPos = CounterBPos) =>
            (relationship = "next to" /\ priority = Fin(16, 5))
        /\ ScanComplete =>
            (best_receptacle = RecepType(receptacles[CounterB])
             /\ best_relationship = "next to")

(***************************************************************************)
(* C11, amended: in the scenario CounterA (vertical 0 < 0.5, horizontal    *)
(* 1.0 < 1.5) is labelled next to with score 1.5, CounterB next to with    *)
(* score 0.9, and the selector picks CounterB.                             *)
(***************************************************************************)
C11_BothNextTo ==
    CounterScenario =>
        /\ (Scored /\ ScoredRecPos = CounterAPos) =>
            (relationship = "next to" /\ priority = Fin(100, 5))
        /\ (Scored /\ ScoredRecPos = CounterBPos) =>
            (relationship = "next to" /\ priority = Fin(16, 5))
        /\ ScanComplete =>
            (best_receptacle = RecepType(receptacles[CounterB])
             /\ best_relationship = "next to"
             /\ min_distance = Fin(16, 5))

\* CounterA was scored first, CounterB second, and CounterB was kept
C11_Witness ==
    /\ CounterScenario
    /\ ScanComplete
    /\ RecepPosition(receptacles[1]) = CounterAPos
    /\ best_receptacle = RecepType(receptacles[2])
    /\ min_distance = Fin(16, 5)

(***************************************************************************)
(* Vocabulary of C12: the calls of match_object_name made by the partition *)
(* loop of extract_contextual_relationships, which share used_objects      *)
(***************************************************************************)
\* the names the calls made so far have returned, one per matched pose
ReturnedNames ==
    {receptacles[k].meta.name : k \in DOMAIN receptacles}
        \cup {items[k].meta.name : k \in DOMAIN items}

\* some unused metadata object matches the pose name exactly, by type or by prefix
UnusedMatch(pose_name) ==
    \E j \in DOMAIN objects :
        /\ objects[j].name \notin used_objects
        /\ \/ objects[j].name = pose_name
           \/ objects[j].objectType = pose_name[1]
           \/ objects[j].name[1] = pose_name[1]

\* the state part: used_objects is exactly what was returned, each name once
MatchState ==
    (prog = "ecr" /\ pc \in {"partition", "item", "scan", "done"}) =>
        /\ used_objects = ReturnedNames
        /\ Len(receptacles) + Len(items) = Cardinality(used_objects)
        /\ Cardinality(used_objects) <= p - 1
        /\ used_objects \subseteq {objects[j].name : j \in DOMAIN objects}

\* the step part: one call either returns None, and then nothing unused
\* matched, or adds one name that no earlier call returned
MatchStep ==
    (pc = "partition" /\ p' = p + 1) =>
        /\ used_objects \subseteq used_objects'
        /\ IF used_objects' = used_objects
           THEN /\ ~UnusedMatch(object_poses[p].objectName)
                /\ receptacles' = receptacles
                /\ items' = items
           ELSE /\ UnusedMatch(object_poses[p].objectName)
                /\ \E n \in used_objects' \ used_objects :
                      used_objects' = used_objects \cup {n}

(***************************************************************************)
(* C12: over the calls of match_object_name that share one used_objects    *)
(* set, no metadata object is returned twice, used_objects only grows and  *)
(* holds exactly the names returned so far, and a call returns None only   *)
(* when no unused object matches the pose name exactly, by objectType      *)
(* equal to the pose-name prefix, or by name prefix.                       *)
(***************************************************************************)
C12_MatchOnce == [](MatchState) /\ [][MatchStep]_vars

\* two poses of one name were matched to two different metadata objects
C12_Witness ==
    /\ prog = "ecr"
    /\ pc = "partition"
    /\ p = 3
    /\ object_poses[1].objectName = object_poses[2].objectName
    /\ Cardinality(used_objects) = 2

\* a call returned None although an unused metadata object was left
C12_WitnessNone ==
    /\ prog = "ecr"
    /\ pc = "partition"
    /\ p = 3
    /\ Len(objects) = 2
    /\ Cardinality(used_objects) = 1

(***************************************************************************)
(* generate_scene_info (scripts/scene_info_extract_ai2thor_2_1_0.py):      *)
(* the controller is started, the scene is replayed inside try, and the    *)
(* finally clause stops the controller.  A call of the controller or a     *)
(* key lookup may succeed or raise.                                        *)
(***************************************************************************)
MaxToggles == 1

\* safe_initialize(controller, timeout=30), in seconds
InitializeTimeout == 30

\* request_queue.get(block=True, timeout=0.5), in tenths of a second
PollTimeout == 5

\* the state of the classifier functions
cvars == <<prog, objects, object_poses, pc, pass, prev_records, RECEPTACLE_TYPES,
           used_objects, p, receptacles, items, it, item_pos, rc, relationship,
           priority, best_relationship, best_receptacle, min_distance, records>>

Outcomes == {"ok", "raise"}

GenPoses ==
    UNION {[1..n -> {MkPose(<<"Apple", 1>>, Origin)}] : n \in 0..MaxPoses}

GenToggles ==
    UNION {[1..n -> {[state |-> "on"], [state |-> "off"]}] : n \in 0..MaxToggles}

InitGen ==
    /\ prog = "bsd"
    /\ objects = <<>>
    /\ pc = "idle"
    /\ pass = "first"
    /\ prev_records = <<>>
    /\ Locals
    /\ object_poses \in GenPoses
    /\ object_toggles \in GenToggles
    /\ gpc = "start"
    /\ controller = None
    /\ stops = 0
    /\ exc = None
    /\ ticks = 0
    /\ gk = 1

\* an exception inside the function leaves it at once: no finally clause
AfterRaiseNoFinally == "exited"

\* where an exception raised inside the try block takes control
AfterRaise == "finally"

\* a statement of the try block raises e
RaiseInTry(e) ==
    /\ exc' = e
    /\ gpc' = AfterRaise
    /\ UNCHANGED <<object_toggles, controller, stops, ticks, gk>>

\* `while time.time() - start_time < timeout`
StillWaiting == ticks * PollTimeout < InitializeTimeout * 10

\* controller = start_controller_headless_or_x11()
StartController ==
    /\ gpc = "start"
    /\ \E r \in Outcomes :
        IF r = "ok"
        THEN /\ controller' = "running"
             /\ gpc' = "reset"
             /\ UNCHANGED exc
        ELSE /\ exc' = "Exception"
             /\ gpc' = "exited"
             /\ UNCHANGED controller
    /\ UNCHANGED <<object_toggles, stops, ticks, gk>>
    /\ UNCHANGED cvars

\* controller.reset(floor_plan)
ResetScene ==
    /\ gpc = "reset"
    /\ \E r \in Outcomes :
        IF r = "ok"
        THEN /\ gpc' = "initialize"
             /\ UNCHANGED <<object_toggles, controller, stops, exc, ticks, gk>>
        ELSE RaiseInTry("Exception")
    /\ UNCHANGED cvars

\* safe_initialize: response_queue.put_nowait(dict(action="Initialize"))
SendInitialize ==
    /\ gpc = "initialize"
    /\ \E r \in Outcomes :
        IF r = "ok"
        THEN /\ gpc' = "waiting"
             /\ ticks' = 0
             /\ UNCHANGED <<object_toggles, controller, stops, exc, gk>>
        ELSE RaiseInTry("Exception")
    /\ UNCHANGED cvars

\* safe_initialize: get() timed out, the bare except passes
PollEmpty ==
    /\ gpc = "waiting"
    /\ StillWaiting
    /\ ticks' = ticks + 1
    /\ UNCHANGED <<gpc, object_toggles, controller, stops, exc, gk>>
    /\ UNCHANGED cvars

\* safe_initialize returns the event: lastActionSuccess is true
PollSucceeded ==
    /\ gpc = "waiting"
    /\ StillWaiting
    /\ gpc' = "poses"
    /\ gk' = 1
    /\ UNCHANGED <<object_toggles, controller, stops, exc, ticks>>
    /\ UNCHANGED cvars

\* safe_initialize returns None, `if not event: raise RuntimeError(...)`
PollFailed ==
    /\ gpc = "waiting"
    /\ StillWaiting
    /\ RaiseInTry("RuntimeError")
    /\ UNCHANGED cvars

\* safe_initialize: the loop ends, raise TimeoutError(...)
PollTimedOut ==
    /\ gpc = "waiting"
    /\ ~StillWaiting
    /\ RaiseInTry("TimeoutError")
    /\ UNCHANGED cvars

\* one iteration of `for pose in object_poses`: TeleportObject, RotateObject
PoseStep ==
    /\ gpc = "poses"
    /\ gk <= Len(object_poses)
    /\ \E r \in Outcomes :
        IF r = "ok"
        THEN /\ gk' = gk + 1
             /\ UNCHANGED <<gpc, object_toggles, controller, stops, exc, ticks>>
        ELSE RaiseInTry("Exception")
    /\ UNCHANGED cvars

PosesDone ==
    /\ gpc = "poses"
    /\ gk > Len(object_poses)
    /\ gpc' = "toggles"
    /\ gk' = 1
    /\ UNCHANGED <<object_toggles, controller, stops, exc, ticks>>
    /\ UNCHANGED cvars

\* one iteration of `for t in object_toggles`
ToggleStep ==
    /\ gpc = "toggles"
    /\ gk <= Len(object_toggles)
    /\ \E r \in Outcomes :
        IF r = "ok"
        THEN /\ gk' = gk + 1
             /\ UNCHANGED <<gpc, object_toggles, controller, stops, exc, ticks>>
        ELSE RaiseInTry("Exception")
    /\ UNCHANGED cvars

TogglesDone ==
    /\ gpc = "toggles"
    /\ gk > Len(object_toggles)
    /\ gpc' = "init_action"
    /\ UNCHANGED <<object_toggles, controller, stops, exc, ticks, gk>>
    /\ UNCHANGED cvars

\* json.loads(init_action) and controller.step(init_action)
InitAction ==
    /\ gpc = "init_action"
    /\ \E r \in Outcomes :
        IF r = "ok"
        THEN /\ gpc' = "describe"
             /\ UNCHANGED <<object_toggles, controller, stops, exc, ticks, gk>>
        ELSE RaiseInTry("Exception")
    /\ UNCHANGED cvars

\* section 7: the description is built and printed, the try block ends
Describe ==
    /\ gpc = "describe"
    /\ \E r \in Outcomes :
        IF r = "ok"
        THEN /\ gpc' = "finally"
             /\ UNCHANGED <<object_toggles, controller, stops, exc, ticks, gk>>
        ELSE RaiseInTry("Exception")
    /\ UNCHANGED cvars

\* finally: controller.stop(); then the function returns or the exception
\* in flight (that of stop() itself, if it raised) leaves it
Finally ==
    /\ gpc = "finally"
    /\ stops' = stops + 1
    /\ controller' = "stopped"
    /\ gpc' = "exited"
    /\ \E r \in Outcomes :
        IF r = "ok" THEN UNCHANGED exc ELSE exc' = "Exception"
    /\ UNCHANGED <<object_toggles, ticks, gk>>
    /\ UNCHANGED cvars

NextGen ==
    \/ StartController
    \/ ResetScene
    \/ SendInitialize
    \/ PollEmpty
    \/ PollSucceeded
    \/ PollFailed
    \/ PollTimedOut
    \/ PoseStep
    \/ PosesDone
    \/ ToggleStep
    \/ TogglesDone
    \/ InitAction
    \/ Describe
    \/ Finally

SpecGen == InitGen /\ [][NextGen]_vars

(***************************************************************************)
(* C13: once start_controller_headless_or_x11 has returned a controller,   *)
(* controller.stop() is executed exactly once before generate_scene_info   *)
(* exits, on every path: normal completion, safe_initialize returning      *)
(* None, safe_initialize raising TimeoutError, an exception of a later     *)
(* step.                                                                   *)
(***************************************************************************)
C13_StopExactlyOnce ==
    /\ stops <= 1
    /\ (gpc = "exited" /\ controller # None) => (stops = 1 /\ controller = "stopped")
    /\ stops = 1 => gpc = "exited"
    /\ controller = None => stops = 0

\* the function was left by the TimeoutError of safe_initialize, after stop()
C13_Witness ==
    /\ gpc = "exited"
    /\ exc = "TimeoutError"
    /\ stops = 1
    /\ controller = "stopped"

C13_WitnessNone ==
    gpc = "exited" /\ exc = "RuntimeError" /\ stops = 1

C13_WitnessNormal ==
    gpc = "exited" /\ exc = None /\ stops = 1 /\ Len(object_poses) = 2

C13_WitnessLater ==
    gpc = "exited" /\ exc = "Exception" /\ stops = 1 /\ gk = 2

(***************************************************************************)
(* C14: for every item and every pair of receptacles of which one yields   *)
(* an on or in candidate and the other a near candidate, the on/in         *)
(* candidate has the strictly lower score; hence, whatever the order of    *)
(* the receptacles, the selector does not return near for an item that     *)
(* has an on or in candidate.                                              *)
(***************************************************************************)
C14_OnInBeatsNear ==
    ScanComplete =>
        LET onin == {k \in Candidates : CandLabel(k) \in {"on", "in"}}
            near == {k \in Candidates : CandLabel(k) = "near"}
        IN  /\ \A j \in onin : \A k \in near :
                /\ ScoreLess(CandScore(j), CandScore(k))
                /\ ScoreLess(CandScore(j), Fin(0, NearOffset))
                /\ ScoreLeq(Fin(0, NearOffset), CandScore(k))
            /\ onin # {} => best_relationship \in {"on", "in", "next to"}
            /\ (onin # {} /\ \A k \in Candidates : CandLabel(k) # "next to")
                   => best_relationship \in {"on", "in"}

\* the near candidate comes first and scores 1.0, the on candidate comes
\* second and scores 0.9: the on candidate is selected
C14_Witness ==
    /\ ScanComplete
    /\ Len(receptacles) = 2
    /\ CandLabel(1) = "near"
    /\ CandScore(1) = Fin(0, NearOffset)
    /\ CandLabel(2) = "on"
    /\ CandScore(2) = Fin(81, 0)
    /\ best_relationship = "on"

\* an in candidate after a near candidate
C14_WitnessIn ==
    /\ ScanComplete
    /\ Len(receptacles) = 2
    /\ CandLabel(1) = "near"
    /\ CandLabel(2) = "in"
    /\ best_relationship = "in"

\* an on candidate before a near candidate
C14_WitnessOnFirst ==
    /\ ScanComplete
    /\ Len(receptacles) = 2
    /\ CandLabel(1) = "on"
    /\ CandLabel(2) = "near"
    /\ best_relationship = "on"

====
